---- MODULE Spec2Model ----
(***************************************************************************)
(* Model of internal/mcp/tools/render.go: the template globals resolved    *)
(* by init(), the random object-name generator, the Minio publisher        *)
(* renderAndUploadToMinio and the three render tools.                      *)
(*                                                                         *)
(* Strings the code takes apart (CSV text, URLs, file names) are sequences *)
(* of pieces, each piece a TLA+ string; strings it only compares or passes *)
(* on (template texts, keys, error texts) are TLA+ strings.                *)
(***************************************************************************)
EXTENDS Integers, Sequences, FiniteSets, TLC

VARIABLES
    home,            \* os.UserHomeDir() succeeds
    files,           \* the three override files under the home directory
    renderTemplate,  \* the globals renderCsvTemplate/renderTreeTemplate/renderGraphTemplate
    booted,          \* init() has run
    fileWrites,      \* per tool: os.WriteFile calls made by the program
    touched,         \* edits of the override files made by the developer after init()
    tmpl,            \* per tool: the template parsed by its constructor ("" before)
    crashed,         \* a constructor panicked
    env,             \* the MINIO_* environment variables
    bucket,          \* the objects of the bucket: a set of <<key, document>>
    putLog,          \* the successful PutObject calls, in order of completion
    inv,             \* the tool invocations
    fnOut            \* the last result of generateRandomFilename called on its own

vars == <<home, files, renderTemplate, booted, fileWrites, touched, tmpl, crashed,
          env, bucket, putLog, inv, fnOut>>

----------------------------------------------------------------------------
(* Bounds of the model *)

MaxCalls == 2      \* tool invocations in one run of the concurrent specification
MaxCsvLen == 4     \* length of the raw CSV texts enumerated
MaxWordDraw == 3   \* rand.Intn(n) draws enumerated for the words: 0..MaxWordDraw-1 and n-1
MaxTouches == 1    \* edits of the override files after init()

----------------------------------------------------------------------------
(* The word list and generateRandomFilename *)

randomWords ==
    << "apple", "banana", "cherry", "date", "elderberry", "fig", "grape", "honeydew",
       "kiwi", "lemon", "mango", "nectarine", "orange", "papaya", "quince", "raspberry",
       "strawberry", "tangerine", "ugli", "vanilla", "watermelon", "xigua", "yam", "zucchini",
       "red", "green", "blue", "yellow", "purple", "orange", "pink", "brown", "black", "white",
       "happy", "sad", "big", "small", "fast", "slow", "bright", "dark", "shiny", "dull" >>

DigitRange == 100000   \* rand.Intn(100000)
PadWidth == 5          \* "%05d"

DigitChar == << "0", "1", "2", "3", "4", "5", "6", "7", "8", "9" >>

\* fmt.Sprintf("%d", v) for v >= 0: the decimal digits, most significant first
RECURSIVE Decimal(_)
Decimal(v) == IF v < 10 THEN << DigitChar[v + 1] >>
              ELSE Decimal(v \div 10) \o << DigitChar[(v % 10) + 1] >>

RECURSIVE Zeros(_)
Zeros(k) == IF k <= 0 THEN << >> ELSE << "0" >> \o Zeros(k - 1)

\* a plausible slip: "%5d" or "%d", no zero padding
SprintfUnpadded(v) == Decimal(v)

\* fmt.Sprintf("%05d", v): padded with zeros on the left to PadWidth, never cut
Sprintf05d(v) == Zeros(PadWidth - Len(Decimal(v))) \o Decimal(v)

\* generateRandomFilename with the four rand.Intn results r1, r2, r3 (words) and
\* rd (digits) made explicit
generateRandomFilename(r1, r2, r3, rd) ==
    LET n == Len(randomWords)
        wordsPart == IF n > 0
                     THEN << randomWords[r1 + 1], "-", randomWords[r2 + 1], "-",
                             randomWords[r3 + 1] >>
                     ELSE << "UnixNano" >>
        digits == Sprintf05d(rd)
    IN  wordsPart \o << "-" >> \o digits \o << ".html" >>

----------------------------------------------------------------------------
(* The template globals and init() *)

Tools == {"csv", "tree", "graph"}

\* the content of the embedded render_<tool>.html.tmpl
Embedded(t) == CASE t = "csv"   -> "embedded:render_csv.html.tmpl"
                 [] t = "tree"  -> "embedded:render_tree.html.tmpl"
                 [] t = "graph" -> "embedded:render_graph.html.tmpl"

\* texts a developer may put in an override file: one that parses and executes,
\* one that parses but fails when executed, one that does not parse
CustomTexts == {"custom:ok", "custom:execfail", "custom:noparse"}

Absent == [exists |-> FALSE, readable |-> FALSE, writable |-> FALSE, content |-> ""]
File(r, w, c) == [exists |-> TRUE, readable |-> r, writable |-> w, content |-> c]

\* os.ReadFile(path): err == nil
ReadOK(file) == file.exists /\ file.readable

\* os.WriteFile(path, data, 0644) on the file, its error discarded: an existing
\* file is replaced when it can be opened for writing and is left alone otherwise
WriteFile(file, data) ==
    IF file.exists
    THEN IF file.writable THEN [file EXCEPT !.content = data] ELSE file
    ELSE File(TRUE, TRUE, data)

\* a plausible slip: an empty override file taken as the template
fEmptyOverrides(file, defaultContent) ==
    IF ReadOK(file)
    THEN [text |-> file.content, file |-> file, wrote |-> FALSE]
    ELSE [text |-> defaultContent, file |-> file, wrote |-> FALSE]

\* the closure f of init(): the text it returns, the file it leaves, whether it
\* called os.WriteFile
f(file, defaultContent) ==
    IF ReadOK(file)
    THEN IF file.content = ""
         THEN [text |-> defaultContent, file |-> WriteFile(file, defaultContent),
               wrote |-> TRUE]
         ELSE [text |-> file.content, file |-> file, wrote |-> FALSE]
    ELSE [text |-> defaultContent, file |-> file, wrote |-> FALSE]

\* func init(): resolves the three globals, once
init ==
    /\ ~booted
    /\ booted' = TRUE
    /\ IF home
       THEN /\ renderTemplate' = [t \in Tools |-> f(files[t], renderTemplate[t]).text]
            /\ files' = [t \in Tools |-> f(files[t], renderTemplate[t]).file]
            /\ fileWrites' = [t \in Tools |->
                   fileWrites[t] + IF f(files[t], renderTemplate[t]).wrote THEN 1 ELSE 0]
       ELSE UNCHANGED <<renderTemplate, files, fileWrites>>
    /\ UNCHANGED <<home, touched, tmpl, crashed, env, bucket, putLog, inv, fnOut>>

\* the developer creates, changes, empties or deletes an override file while the
\* process runs (README: "Developing the render templates")
EditFile(Contents) ==
    /\ booted
    /\ home
    /\ touched < MaxTouches
    /\ touched' = touched + 1
    /\ \E t \in Tools : \E nf \in {Absent} \cup {File(TRUE, TRUE, c) : c \in Contents} :
          /\ nf # files[t]
          /\ files' = [files EXCEPT ![t] = nf]
    /\ UNCHANGED <<home, renderTemplate, booted, fileWrites, tmpl, crashed, env, bucket,
                   putLog, inv, fnOut>>

\* template.New("").Funcs(funcMap).Parse(text): err == nil
ParseOK(text) == text # "custom:noparse"

\* a plausible slip: the constructor reads the override file again
ConstructorTextReread(t) ==
    IF home /\ ReadOK(files[t]) /\ files[t].content # ""
    THEN files[t].content ELSE renderTemplate[t]

\* the text a constructor parses: the global, as init() left it
ConstructorText(t) == renderTemplate[t]

\* NewRenderCSVAsTable / NewRenderTreeAsTree / NewRenderNetworkAsGraph up to the
\* return of the mcp.Tool: parse the global, panic on a parse error
NewRender(t) ==
    /\ booted
    /\ ~crashed
    /\ tmpl[t] = ""
    /\ IF ParseOK(ConstructorText(t))
       THEN /\ tmpl' = [tmpl EXCEPT ![t] = ConstructorText(t)]
            /\ UNCHANGED crashed
       ELSE /\ crashed' = TRUE
            /\ UNCHANGED tmpl
    /\ UNCHANGED <<home, files, renderTemplate, booted, fileWrites, touched, env, bucket,
                   putLog, inv, fnOut>>

NewRenderCSVAsTable == NewRender("csv")
NewRenderTreeAsTree == NewRender("tree")
NewRenderNetworkAsGraph == NewRender("graph")

----------------------------------------------------------------------------
(* encoding/csv as the table tool uses it: csv.NewReader(...).ReadAll() with *)
(* the default settings (comma ',', no lazy quotes, FieldsPerRecord 0)       *)

CsvChars == {"a", ",", "NL", "Q"}    \* a letter, the comma, the newline, the double quote

RECURSIVE SeqsUpTo(_, _)
SeqsUpTo(S, n) ==
    IF n = 0 THEN {<< >>}
    ELSE LET shorter == SeqsUpTo(S, n - 1)
         IN  shorter \cup {Append(s, c) : s \in {x \in shorter : Len(x) = n - 1}, c \in S}

\* the raw texts enumerated
CsvTexts == SeqsUpTo(CsvChars, MaxCsvLen)

\* Reader.readRecord over the rest of the input. mode: where the reader is in the
\* line; nf: fields of the current record so far; fpr: FieldsPerRecord (0 until the
\* first record has set it). TRUE when ReadAll returns a nil error.
RECURSIVE Scan(_, _, _, _)
Scan(rest, mode, nf, fpr) ==
    LET EndRecord(r, n) ==
            IF fpr > 0 /\ n # fpr THEN FALSE                  \* ErrFieldCount
            ELSE Scan(r, "lineStart", 0, IF fpr = 0 THEN n ELSE fpr)
    IN  CASE mode = "lineStart" ->
               IF rest = << >> THEN TRUE                                 \* io.EOF
               ELSE IF Head(rest) = "NL" THEN Scan(Tail(rest), "lineStart", 0, fpr)
               ELSE Scan(rest, "fieldStart", 0, fpr)
          [] mode = "fieldStart" ->
               IF rest # << >> /\ Head(rest) = "Q"
               THEN Scan(Tail(rest), "quoted", nf, fpr)
               ELSE Scan(rest, "unquoted", nf, fpr)
          [] mode = "unquoted" ->
               IF rest = << >> THEN EndRecord(rest, nf + 1)
               ELSE IF Head(rest) = "," THEN Scan(Tail(rest), "fieldStart", nf + 1, fpr)
               ELSE IF Head(rest) = "NL" THEN EndRecord(Tail(rest), nf + 1)
               ELSE IF Head(rest) = "Q" THEN FALSE                     \* ErrBareQuote
               ELSE Scan(Tail(rest), "unquoted", nf, fpr)
          [] mode = "quoted" ->
               IF rest = << >> THEN FALSE                              \* ErrQuote at EOF
               ELSE IF Head(rest) = "Q" THEN Scan(Tail(rest), "afterQuote", nf, fpr)
               ELSE Scan(Tail(rest), "quoted", nf, fpr)
          [] mode = "afterQuote" ->
               IF rest = << >> THEN EndRecord(rest, nf + 1)
               ELSE IF Head(rest) = "Q" THEN Scan(Tail(rest), "quoted", nf, fpr)
               ELSE IF Head(rest) = "," THEN Scan(Tail(rest), "fieldStart", nf + 1, fpr)
               ELSE IF Head(rest) = "NL" THEN EndRecord(Tail(rest), nf + 1)
               ELSE FALSE                                              \* ErrQuote

\* r.ReadAll() returns a nil error on raw
ReadAllOK(raw) == Scan(raw, "lineStart", 0, 0)

----------------------------------------------------------------------------
(* net/url and path/filepath as the publisher uses them *)

\* url.Parse(s): err is "" for a nil error, and then scheme, host and path are set
UrlParse(s) ==
    IF s # << >> /\ s[1] = ":"
    THEN [err |-> "missing protocol scheme", scheme |-> "", host |-> "", path |-> << >>]
    ELSE IF Len(s) >= 2 /\ s[1] = "https://"
    THEN [err |-> "", scheme |-> "https://", host |-> s[2], path |-> SubSeq(s, 3, Len(s))]
    ELSE [err |-> "", scheme |-> "", host |-> "", path |-> s]

\* filepath.Join(p): "" stays "", duplicate separators collapse
RECURSIVE FilepathJoin(_)
FilepathJoin(p) ==
    IF Len(p) < 2 THEN p
    ELSE IF p[1] = "/" /\ p[2] = "/" THEN FilepathJoin(Tail(p))
    ELSE << p[1] >> \o FilepathJoin(Tail(p))

\* (*url.URL).String()
UrlString(u) == (IF u.scheme = "" THEN << >> ELSE << u.scheme, u.host >>) \o u.path

\* strconv.ParseBool: err == nil, and the value
ParseBoolOK(str) == str \in {"true", "false"}
ParseBool(str) == str = "true"

\* minio.New(endpoint, ...): err == nil (the endpoint must be a host)
MinioNewOK(minioEndpoint) == minioEndpoint # ""

----------------------------------------------------------------------------
(* The tool invocations: the Callable of each tool and renderAndUploadToMinio, *)
(* a step per stage so that invocations interleave                             *)

ErrCsv == "invalid csv content"
ErrTemplate(t) == CASE t = "csv"   -> "could not render csv html content"
                    [] t = "tree"  -> "could not render tree html content"
                    [] t = "graph" -> "could not render graph html content"
ErrConfig == "missing required Minio environment variables"
ErrEndpoint == "invalid MINIO_ENDPOINT format"
ErrClient == "failed to create Minio client"
ErrUpload == "failed to upload object to Minio"

Prefix(t) == CASE t = "csv"   -> "CSV rendered and uploaded: "
               [] t = "tree"  -> "Tree rendered and uploaded: "
               [] t = "graph" -> "Graph rendered and uploaded: "

NoConfig == [endpoint |-> << >>, accessKeyID |-> "", secretAccessKey |-> "",
             bucketName |-> "", useSSLStr |-> ""]

IdleInv == [pc |-> "idle", tool |-> "", raw |-> << >>, fits |-> TRUE, buffer |-> << >>,
            cfg |-> NoConfig, useSSL |-> TRUE, minioEndpoint |-> "", filename |-> << >>,
            pubCalled |-> FALSE, pubDone |-> FALSE, pubURL |-> << >>, pubErr |-> "",
            content |-> << >>, err |-> "", stages |-> << >>, edits |-> 0, clients |-> 0,
            uploads |-> 0, netOK |-> TRUE]

Invs == DOMAIN inv

\* a plausible slip: the table tool goes straight to the template
EntryStageNoValidation(t) == "execute"

\* the first statement of a Callable: the table tool validates, the others render
EntryStage(t) == IF t = "csv" THEN "validate" ELSE "execute"

\* the tool is called with arguments of its declared shape
Call(i, t, raw, fits) ==
    /\ booted /\ ~crashed
    /\ tmpl[t] # ""
    /\ inv[i].pc = "idle"
    /\ inv' = [inv EXCEPT ![i] = [@ EXCEPT !.pc = EntryStage(t), !.tool = t,
                                            !.raw = raw, !.fits = fits]]
    /\ UNCHANGED <<home, files, renderTemplate, booted, fileWrites, touched, tmpl, crashed,
                   env, bucket, putLog, fnOut>>

\* a plausible slip: the endpoint parsed before the configuration is checked
StageAfterEndpointFirst(stage) ==
    CASE stage = "validate"      -> "execute"
      [] stage = "execute"       -> "parseEndpoint"
      [] stage = "parseEndpoint" -> "config"
      [] stage = "config"        -> "newClient"
      [] stage = "newClient"     -> "genName"
      [] stage = "genName"       -> "putObject"
      [] stage = "putObject"     -> "buildURL"

\* the statement reached when a stage succeeds: the order of the statements of a
\* Callable and of renderAndUploadToMinio
StageAfter(stage) ==
    CASE stage = "validate"      -> "execute"
      [] stage = "execute"       -> "config"
      [] stage = "config"        -> "parseEndpoint"
      [] stage = "parseEndpoint" -> "newClient"
      [] stage = "newClient"     -> "genName"
      [] stage = "genName"       -> "putObject"
      [] stage = "putObject"     -> "buildURL"

Step(i, stage) == /\ booted /\ ~crashed
                  /\ inv[i].pc = stage
Log(r, stage) == [r EXCEPT !.stages = Append(@, stage)]

\* a plausible slip: the error is returned together with a result
ToolReturnsBoth(r, publicURL, e) ==
    [r EXCEPT !.pc = "returned", !.content = << Prefix(r.tool) >> \o publicURL, !.err = e]

\* the return statements of a Callable: (nil, err) or (content, nil)
ToolReturns(r, publicURL, e) ==
    [r EXCEPT !.pc = "returned",
              !.content = IF e = "" THEN << Prefix(r.tool) >> \o publicURL ELSE << >>,
              !.err = e]

\* renderAndUploadToMinio returns (publicURL, e), and the Callable returns on it
PublisherReturns(r, publicURL, e) ==
    ToolReturns([r EXCEPT !.pubDone = TRUE, !.pubURL = publicURL, !.pubErr = e],
                publicURL, e)

OthersUnchanged == UNCHANGED <<home, files, renderTemplate, booted, fileWrites, touched,
                               tmpl, crashed, env, bucket, putLog, fnOut>>

\* csv.NewReader(strings.NewReader(raw)).ReadAll()
Validate(i) ==
    /\ Step(i, "validate")
    /\ LET r == Log(inv[i], "validate")
       IN  inv' = [inv EXCEPT ![i] =
                      IF ReadAllOK(r.raw) THEN [r EXCEPT !.pc = StageAfter("validate")]
                      ELSE ToolReturns(r, << >>, ErrCsv)]
    /\ OthersUnchanged

\* tmpl.Execute(buffer, arguments): err == nil. The data must suit the template,
\* and the template itself must execute.
ExecuteOK(text, r) == text # "custom:execfail" /\ r.fits

\* the document tmpl.Execute writes into the buffer
Rendered(text, r) == << text, r.tool, r.raw >>

\* a plausible slip: the error of tmpl.Execute dropped
AfterExecuteIgnoringError(r, ok) ==
    [r EXCEPT !.pc = StageAfter("execute"), !.buffer = Rendered(tmpl[r.tool], r)]

\* the if around tmpl.Execute
AfterExecute(r, ok) ==
    IF ok THEN [r EXCEPT !.pc = StageAfter("execute"), !.buffer = Rendered(tmpl[r.tool], r)]
    ELSE ToolReturns(r, << >>, ErrTemplate(r.tool))

Execute(i) ==
    /\ Step(i, "execute")
    /\ LET r == [Log(inv[i], "execute") EXCEPT !.edits = touched]
       IN  inv' = [inv EXCEPT ![i] = AfterExecute(r, ExecuteOK(tmpl[r.tool], r))]
    /\ OthersUnchanged

\* a plausible slip: the bucket left out of the check
ConfigMissingNoBucket(cfg) ==
    cfg.endpoint = << >> \/ cfg.accessKeyID = "" \/ cfg.secretAccessKey = ""

\* endpoint == "" || accessKeyID == "" || secretAccessKey == "" || bucketName == ""
ConfigMissing(cfg) ==
    cfg.endpoint = << >> \/ cfg.accessKeyID = "" \/ cfg.secretAccessKey = ""
        \/ cfg.bucketName = ""

\* renderAndUploadToMinio, 1: read the environment, check it, parse MINIO_USE_SSL
ReadConfig(i) ==
    /\ Step(i, "config")
    /\ LET r == [Log(inv[i], "config") EXCEPT !.pubCalled = TRUE, !.cfg = env]
       IN  inv' = [inv EXCEPT ![i] =
                      IF ConfigMissing(r.cfg) THEN PublisherReturns(r, << >>, ErrConfig)
                      ELSE [r EXCEPT !.pc = StageAfter("config"),
                                     !.useSSL = IF r.cfg.useSSLStr # ""
                                                   /\ ParseBoolOK(r.cfg.useSSLStr)
                                                THEN ParseBool(r.cfg.useSSLStr)
                                                ELSE TRUE]]
    /\ OthersUnchanged

\* url.Parse(endpoint) and endpointURL.Host
ParseEndpoint(i) ==
    /\ Step(i, "parseEndpoint")
    /\ LET r == Log(inv[i], "parseEndpoint")
           u == UrlParse(r.cfg.endpoint)
       IN  inv' = [inv EXCEPT ![i] =
                      IF u.err # "" THEN PublisherReturns(r, << >>, ErrEndpoint)
                      ELSE [r EXCEPT !.pc = StageAfter("parseEndpoint"), !.minioEndpoint = u.host]]
    /\ OthersUnchanged

\* renderAndUploadToMinio, 2: minio.New
NewClient(i) ==
    /\ Step(i, "newClient")
    /\ LET r == Log(inv[i], "newClient")
       IN  inv' = [inv EXCEPT ![i] =
                      IF MinioNewOK(r.minioEndpoint)
                      THEN [r EXCEPT !.pc = StageAfter("newClient"), !.clients = @ + 1]
                      ELSE PublisherReturns(r, << >>, ErrClient)]
    /\ OthersUnchanged

\* renderAndUploadToMinio, 3: filename := generateRandomFilename()
GenName(i, r1, r2, r3, rd) ==
    /\ Step(i, "genName")
    /\ inv' = [inv EXCEPT ![i] = [Log(@, "genName") EXCEPT
                  !.pc = StageAfter("genName"),
                  !.filename = generateRandomFilename(r1, r2, r3, rd)]]
    /\ OthersUnchanged

Keys(bkt) == {o[1] : o \in bkt}

\* a plausible slip: an upload refused when the key is taken
PutSucceedsIfAbsent(netOK, key, bkt) == netOK /\ key \notin Keys(bkt)

\* minioClient.PutObject: err == nil. The request carries no precondition on the
\* key, so only the transport and the server decide.
PutSucceeds(netOK, key, bkt) == netOK

\* the bucket after a successful PutObject: the object under the key is replaced
Put(bkt, key, doc) == {o \in bkt : o[1] # key} \cup {<< key, doc >>}

\* a plausible slip: a failed upload tried again
AfterPutFailureRetry(r) == [r EXCEPT !.pc = "putObject"]

\* the if after PutObject: the error is returned
AfterPutFailure(r) == PublisherReturns(r, << >>, ErrUpload)

\* renderAndUploadToMinio, 4: PutObject, once
PutObject(i, netOK) ==
    /\ Step(i, "putObject")
    /\ LET r == [Log(inv[i], "putObject") EXCEPT !.uploads = @ + 1, !.netOK = netOK]
           ok == PutSucceeds(netOK, r.filename, bucket)
       IN  /\ inv' = [inv EXCEPT ![i] =
                         IF ok THEN [r EXCEPT !.pc = StageAfter("putObject")]
                         ELSE AfterPutFailure(r)]
           /\ bucket' = IF ok THEN Put(bucket, r.filename, r.buffer) ELSE bucket
           /\ putLog' = IF ok THEN Append(putLog, [by |-> i, key |-> r.filename,
                                                     doc |-> r.buffer])
                        ELSE putLog
    /\ UNCHANGED <<home, files, renderTemplate, booted, fileWrites, touched, tmpl, crashed,
                   env, fnOut>>

\* renderAndUploadToMinio, 5: the public URL, the raw string when it does not parse
PublicURL(r) ==
    LET publicURL == r.cfg.endpoint \o << "/", r.cfg.bucketName, "/" >> \o r.filename
        u == UrlParse(publicURL)
    IN  IF u.err # "" THEN publicURL
        ELSE UrlString([u EXCEPT !.path = FilepathJoin(u.path)])

BuildURL(i) ==
    /\ Step(i, "buildURL")
    /\ LET r == Log(inv[i], "buildURL")
       IN  inv' = [inv EXCEPT ![i] = PublisherReturns(r, PublicURL(r), "")]
    /\ OthersUnchanged

----------------------------------------------------------------------------
(* The inputs enumerated, and the specifications *)

GoodRaw == << "a", ",", "a", "NL", "a", ",", "a" >>     \* "a,a\na,a"
BadRaw == << "a", "Q" >>                                 \* a"

Endpoints == { << >>,
               << "https://", "minio.local" >>,
               << "https://", "minio.local", "/" >>,
               << "minio.local" >>,                      \* no scheme: the host is empty
               << ":", "9000" >> }                       \* url.Parse fails

AllConfigs == [endpoint : Endpoints, accessKeyID : {"", "AKIA"},
               secretAccessKey : {"", "s3cr3t"}, bucketName : {"", "pub"},
               useSSLStr : {"", "false", "yes"}]

GoodConfig == [endpoint |-> << "https://", "minio.local" >>, accessKeyID |-> "AKIA",
               secretAccessKey |-> "s3cr3t", bucketName |-> "pub", useSSLStr |-> "false"]

SlashConfig == [GoodConfig EXCEPT !.endpoint = << "https://", "minio.local", "/" >>,
                                  !.useSSLStr = ""]

\* the process before init(): the override files and the environment as the
\* developer left them, n invocations to come
InitWith(Files, Configs, n) ==
    /\ home \in BOOLEAN
    /\ files \in [Tools -> Files]
    /\ home = FALSE => files = [t \in Tools |-> Absent]
    /\ renderTemplate = [t \in Tools |-> Embedded(t)]
    /\ booted = FALSE
    /\ fileWrites = [t \in Tools |-> 0]
    /\ touched = 0
    /\ tmpl = [t \in Tools |-> ""]
    /\ crashed = FALSE
    /\ env \in Configs
    /\ bucket = {}
    /\ putLog = << >>
    /\ inv = [i \in 1..n |-> IdleInv]
    /\ fnOut = << >>

Startup == init \/ NewRenderCSVAsTable \/ NewRenderTreeAsTree \/ NewRenderNetworkAsGraph

\* the arguments of a call: the table tool takes raw, the others their own data
CallAny(i, Raws, Fits) ==
    \E t \in Tools, fits \in Fits :
        \E raw \in (IF t = "csv" THEN Raws ELSE {<< >>}) : Call(i, t, raw, fits)

\* the steps of an invocation that take no input
Stages ==
    \/ \E i \in Invs : Validate(i)
    \/ \E i \in Invs : Execute(i)
    \/ \E i \in Invs : ReadConfig(i)
    \/ \E i \in Invs : ParseEndpoint(i)
    \/ \E i \in Invs : NewClient(i)
    \/ \E i \in Invs : BuildURL(i)

(* Spec: one invocation, every configuration *)
Init == InitWith({Absent, File(TRUE, TRUE, "custom:execfail")}, AllConfigs, 1)

Next ==
    \/ Startup
    \/ Stages
    \/ \E i \in Invs : CallAny(i, {GoodRaw, BadRaw}, BOOLEAN)
    \/ \E i \in Invs : GenName(i, 0, 1, 2, 7)
    \/ \E i \in Invs, netOK \in BOOLEAN : PutObject(i, netOK)

Spec == Init /\ [][Next]_vars

(* SpecCsv: one invocation, every raw text up to MaxCsvLen; the table tool's
   override file absent or failing at execution *)
InitCsv ==
    /\ InitWith({Absent, File(TRUE, TRUE, "custom:execfail")},
                {NoConfig, GoodConfig, [GoodConfig EXCEPT !.bucketName = ""]}, 1)
    /\ files["tree"] = Absent
    /\ files["graph"] = Absent

NextCsv ==
    \/ Startup
    \/ Stages
    \/ \E i \in Invs : CallAny(i, CsvTexts, {TRUE})
    \/ \E i \in Invs : GenName(i, 0, 1, 2, 7)
    \/ \E i \in Invs, netOK \in BOOLEAN : PutObject(i, netOK)

SpecCsv == InitCsv /\ [][NextCsv]_vars

(* SpecTemplates: every state of the three override files, edits after init() *)
OverrideFiles == {Absent, File(TRUE, TRUE, ""), File(TRUE, FALSE, ""), File(FALSE, TRUE, ""),
                  File(TRUE, TRUE, "custom:ok"), File(TRUE, TRUE, "custom:noparse")}

InitTemplates ==
    InitWith(OverrideFiles, {GoodConfig}, 1)

NextTemplates ==
    \/ Startup
    \/ EditFile({"", "custom:edited"})
    \/ Stages
    \/ \E i \in Invs : CallAny(i, {GoodRaw, BadRaw}, {TRUE})
    \/ \E i \in Invs : GenName(i, 0, 1, 2, 7)
    \/ \E i \in Invs, netOK \in BOOLEAN : PutObject(i, netOK)

SpecTemplates == InitTemplates /\ [][NextTemplates]_vars

(* SpecNames: generateRandomFilename on its own *)
WordDraws == (0 .. MaxWordDraw - 1) \cup {Len(randomWords) - 1}
DigitDraws == {0, 7, 42, 100, 999, 1000, 9999, 10000, 54321, DigitRange - 1}

InitNames == InitWith({Absent}, {GoodConfig}, 0) /\ home

CallGenerate ==
    /\ \E r1 \in WordDraws, r2 \in WordDraws, r3 \in WordDraws, rd \in DigitDraws :
          fnOut' = << [r1 |-> r1, r2 |-> r2, r3 |-> r3, rd |-> rd,
                       name |-> generateRandomFilename(r1, r2, r3, rd)] >>
    /\ UNCHANGED <<home, files, renderTemplate, booted, fileWrites, touched, tmpl, crashed,
                   env, bucket, putLog, inv>>

NextNames == CallGenerate

SpecNames == InitNames /\ [][NextNames]_vars

(* SpecConc: MaxCalls invocations interleaved, two object names to draw *)
InitConc == InitWith({Absent}, {GoodConfig, SlashConfig}, MaxCalls) /\ home

NextConc ==
    \/ Startup
    \/ Stages
    \/ \E i \in Invs : CallAny(i, {GoodRaw, BadRaw}, {TRUE})
    \/ \E i \in Invs, rd \in {0, 1} : GenName(i, 0, 1, 2, rd)
    \/ \E i \in Invs, netOK \in BOOLEAN : PutObject(i, netOK)

SpecConc == InitConc /\ [][NextConc]_vars

----------------------------------------------------------------------------
(* The properties *)

Range(q) == {q[k] : k \in DOMAIN q}
PutsBy(i) == {k \in DOMAIN putLog : putLog[k].by = i}
IsPrefix(a, b) == Len(a) <= Len(b) /\ SubSeq(b, 1, Len(a)) = a

RequiredUnset ==
    {v \in {"endpoint", "accessKeyID", "secretAccessKey", "bucketName"} :
        IF v = "endpoint" THEN env.endpoint = << >> ELSE env[v] = ""}

\* C1: a publisher call made while endpoint, access key, secret key or bucket is
\* unset returns the configuration error and an empty URL, constructs no client and
\* makes no upload, so the bucket is as that call found it.
C1_MissingConfigNoNetwork ==
    \A i \in Invs :
        (inv[i].pubCalled /\ RequiredUnset # {}) =>
            /\ inv[i].pubDone
            /\ inv[i].pubErr = ErrConfig
            /\ inv[i].pubURL = << >>
            /\ inv[i].clients = 0
            /\ inv[i].uploads = 0
            /\ PutsBy(i) = {}
            /\ bucket = {}

C1_Witness ==
    \E i \in Invs : /\ RequiredUnset = {"bucketName"}
                    /\ inv[i].pubDone
                    /\ inv[i].pubErr = ErrConfig

\* C2: a table invocation whose raw text is not well-formed CSV returns the
\* input-validation error; it never executes the template and never calls the
\* publisher, whatever the configuration and the template are.
C2_MalformedCsvStopsFirst ==
    \A i \in Invs :
        (inv[i].tool = "csv" /\ ~ReadAllOK(inv[i].raw) /\ inv[i].pc # "validate") =>
            /\ inv[i].pc = "returned"
            /\ inv[i].err = ErrCsv
            /\ inv[i].content = << >>
            /\ inv[i].stages = << "validate" >>
            /\ inv[i].buffer = << >>
            /\ ~inv[i].pubCalled
            /\ inv[i].uploads = 0
            /\ PutsBy(i) = {}

C2_Witness ==
    \E i \in Invs : /\ inv[i].raw = << ",", "NL", "a" >>     \* two fields, then one
                    /\ inv[i].err = ErrCsv
                    /\ env = GoodConfig
                    /\ tmpl["csv"] = Embedded("csv")

\* C3: an invocation of any of the three tools whose template execution fails
\* returns that tool's template-execution error, which is not the input-validation
\* error, and the publisher is not called: nothing is uploaded.
C3_TemplateFailureNoPublish ==
    \A i \in Invs :
        ("execute" \in Range(inv[i].stages)
           /\ (tmpl[inv[i].tool] = "custom:execfail" \/ ~inv[i].fits)) =>
            /\ inv[i].pc = "returned"
            /\ inv[i].err = ErrTemplate(inv[i].tool)
            /\ inv[i].err # ErrCsv
            /\ inv[i].content = << >>
            /\ ~inv[i].pubCalled
            /\ inv[i].uploads = 0
            /\ PutsBy(i) = {}

C3_Witness ==
    \E i \in Invs : /\ inv[i].tool = "tree"
                    /\ tmpl["tree"] = "custom:execfail"
                    /\ inv[i].err = ErrTemplate("tree")
                    /\ RequiredUnset = {}

\* C4: a completed invocation, and a completed publisher call, has a URL and no
\* error, or an error and no URL; never both, never neither.
C4_UrlXorError ==
    \A i \in Invs :
        /\ inv[i].pc = "returned" =>
              \/ inv[i].content # << >> /\ inv[i].err = "" /\ inv[i].pubURL # << >>
                    /\ inv[i].content = << Prefix(inv[i].tool) >> \o inv[i].pubURL
              \/ inv[i].content = << >> /\ inv[i].err # ""
        /\ inv[i].pubDone =>
              \/ inv[i].pubURL # << >> /\ inv[i].pubErr = ""
              \/ inv[i].pubURL = << >> /\ inv[i].pubErr # ""

C4_Witness ==
    \E i \in Invs : /\ inv[i].pc = "returned"
                    /\ inv[i].err = ""
                    /\ inv[i].pubURL = << "https://", "minio.local", "/", "pub", "/" >>
                                          \o inv[i].filename

C6_ResolvedOnce ==
    [][/\ init => \A t \in Tools :
                     (ReadOK(files[t]) /\ files[t].content # "") =>
                         renderTemplate'[t] = files[t].content
       /\ booted => /\ booted'
                    /\ renderTemplate' = renderTemplate
                    /\ fileWrites' = fileWrites
       /\ \A t \in Tools : tmpl'[t] # "" => tmpl'[t] = renderTemplate'[t]
       /\ \A i \in DOMAIN inv' :
             inv'[i].buffer # << >> => inv'[i].buffer[1] = renderTemplate'[inv'[i].tool]
      ]_vars

C6_Witness ==
    \E i \in Invs : /\ inv[i].pc = "returned"
                    /\ inv[i].err = ""
                    /\ inv[i].buffer[1] = "custom:ok"
                    /\ inv[i].edits = 1
                    /\ files[inv[i].tool].content = "custom:edited"

Words == Range(randomWords)
DigitValue(c) == CHOOSE d \in 0 .. 9 : DigitChar[d + 1] = c

\* C7: whatever the draws, the name is word-word-word-NNNNN.html: three words of
\* the list, the ones drawn, and exactly five decimal digits that are the number
\* drawn, between 0 and 99999, padded with zeros.
C7_FilenameForm ==
    \A k \in DOMAIN fnOut :
        LET o == fnOut[k]
            n == o.name
        IN  /\ Len(n) = 12
            /\ n[1] \in Words /\ n[3] \in Words /\ n[5] \in Words
            /\ n[1] = randomWords[o.r1 + 1]
            /\ n[3] = randomWords[o.r2 + 1]
            /\ n[5] = randomWords[o.r3 + 1]
            /\ n[2] = "-" /\ n[4] = "-" /\ n[6] = "-"
            /\ \A j \in 7 .. 11 : n[j] \in Range(DigitChar)
            /\ DigitValue(n[7]) * 10000 + DigitValue(n[8]) * 1000 + DigitValue(n[9]) * 100
                 + DigitValue(n[10]) * 10 + DigitValue(n[11]) = o.rd
            /\ o.rd \in 0 .. 99999
            /\ n[12] = ".html"

C7_Witness ==
    \E k \in DOMAIN fnOut :
        /\ fnOut[k].rd = 42
        /\ fnOut[k].r1 = fnOut[k].r2
        /\ fnOut[k].name = << "banana", "-", "banana", "-", "dull", "-",
                              "0", "0", "0", "4", "2", ".html" >>

\* C8: an invocation calls PutObject at most once. When the call fails the
\* invocation has returned the upload error, with no URL, without a second call; an
\* invocation that returned a URL made exactly one call, and it succeeded.
C8_OneUploadAttempt ==
    \A i \in Invs :
        /\ inv[i].uploads <= 1
        /\ Cardinality(PutsBy(i)) <= inv[i].uploads
        /\ (inv[i].uploads = 1 /\ ~inv[i].netOK) =>
              /\ inv[i].pc = "returned"
              /\ inv[i].err = ErrUpload
              /\ inv[i].content = << >>
              /\ inv[i].pubURL = << >>
              /\ PutsBy(i) = {}
        /\ (inv[i].pc = "returned" /\ inv[i].content # << >>) =>
              /\ inv[i].uploads = 1
              /\ inv[i].netOK
              /\ Cardinality(PutsBy(i)) = 1

C8_Witness ==
    \E i, j \in Invs : /\ inv[i].pc = "returned" /\ inv[i].err = ErrUpload
                       /\ inv[i].uploads = 1
                       /\ inv[j].pc = "returned" /\ inv[j].content # << >>

LastPut(key) ==
    putLog[CHOOSE k \in DOMAIN putLog :
              /\ putLog[k].key = key
              /\ \A m \in DOMAIN putLog : putLog[m].key = key => m <= k]

\* C9: no upload looks at the bucket first. An upload succeeds or fails by the
\* transport alone, also when its key is taken; two invocations that drew the same
\* name and whose uploads went through both return without error, with the same
\* URL, and the bucket holds under that key the document uploaded last, and only it.
C9_CollisionOverwrites ==
    /\ \A i \in Invs :
          inv[i].uploads = 1 =>
              /\ inv[i].netOK <=> PutsBy(i) # {}
              /\ (inv[i].netOK /\ inv[i].pc = "returned") =>
                    inv[i].err = "" /\ inv[i].pubURL # << >>
    /\ \A key \in {putLog[k].key : k \in DOMAIN putLog} :
          {o \in bucket : o[1] = key} = {<< key, LastPut(key).doc >>}
    /\ Keys(bucket) = {putLog[k].key : k \in DOMAIN putLog}
    /\ \A i, j \in Invs :
          (/\ inv[i].pc = "returned" /\ inv[j].pc = "returned"
           /\ PutsBy(i) # {} /\ PutsBy(j) # {}
           /\ inv[i].filename = inv[j].filename) =>
              inv[i].pubURL = inv[j].pubURL

C9_Witness ==
    \E i, j \in Invs :
        /\ i # j
        /\ inv[i].pc = "returned" /\ inv[j].pc = "returned"
        /\ inv[i].err = "" /\ inv[j].err = ""
        /\ inv[i].filename = inv[j].filename
        /\ inv[i].buffer # inv[j].buffer
        /\ inv[i].pubURL = inv[j].pubURL
        /\ Len(putLog) = 2 /\ putLog[2].by = j
        /\ bucket = {<< inv[j].filename, inv[j].buffer >>}

Order(t) ==
    LET all == << "validate", "execute", "config", "parseEndpoint", "newClient",
                  "genName", "putObject", "buildURL" >>
    IN  IF t = "csv" THEN all ELSE Tail(all)

\* the error of the first stage that fails, "" when none does
FirstFailure(r) ==
    IF r.tool = "csv" /\ ~ReadAllOK(r.raw) THEN ErrCsv
    ELSE IF tmpl[r.tool] = "custom:execfail" \/ ~r.fits THEN ErrTemplate(r.tool)
    ELSE IF RequiredUnset # {} THEN ErrConfig
    ELSE IF env.endpoint[1] = ":" THEN ErrEndpoint
    ELSE IF env.endpoint[1] # "https://" THEN ErrClient
    ELSE IF ~r.netOK THEN ErrUpload
    ELSE ""

StageOf(e, t) ==
    CASE e = ErrCsv         -> "validate"
      [] e = ErrTemplate(t) -> "execute"
      [] e = ErrConfig      -> "config"
      [] e = ErrEndpoint    -> "parseEndpoint"
      [] e = ErrClient      -> "newClient"
      [] e = ErrUpload      -> "putObject"
      [] e = ""             -> "buildURL"

\* C10: the stages run in the order validation (table only), template execution,
\* configuration check, endpoint parsing, client construction, upload, URL
\* construction, and stop at the first that fails: the configuration is read only
\* after the template has executed, and with several faults at once the error
\* returned is that of the earliest failing stage.
C10_StagesInOrder ==
    \A i \in Invs :
        /\ inv[i].tool # "" => IsPrefix(inv[i].stages, Order(inv[i].tool))
        /\ inv[i].pubCalled =>
              /\ inv[i].buffer # << >>
              /\ "execute" \in Range(inv[i].stages)
        /\ inv[i].pc = "returned" =>
              /\ inv[i].err = FirstFailure(inv[i])
              /\ inv[i].stages[Len(inv[i].stages)] = StageOf(inv[i].err, inv[i].tool)
              /\ inv[i].err \in {ErrCsv, ErrTemplate(inv[i].tool)} => ~inv[i].pubCalled

C10_Witness ==
    \E i \in Invs : /\ inv[i].pc = "returned"
                    /\ inv[i].tool = "csv"
                    /\ inv[i].raw = BadRaw
                    /\ tmpl["csv"] = "custom:execfail"
                    /\ env = NoConfig
                    /\ inv[i].err = ErrCsv

====
